---- MODULE Spec2Model ----
(***************************************************************************)
(* Model of src/calc/elements.py: PeriodicSpeller (spelling a word with    *)
(* chemical element symbols) and its caller process_file; and of the       *)
(* MusicBrainz collectors of src/artists: prolific.py, prolific-1.py and   *)
(* albums-1.py.                                                            *)
(*                                                                         *)
(* A Python string is a sequence of one-character strings; a list is a     *)
(* sequence; a tuple is a sequence.                                        *)
(***************************************************************************)
EXTENDS Integers, Sequences, FiniteSets, TLC

\* ------------------------------------------------------------------ bounds
\* longest word passed to spell_word directly
MaxLen == 3
\* most lines of an input file of process_file
MaxLines == 3

\* longest solution handed to find_missing_letters on its own
MaxSolution == 2
\* most releases the MusicBrainz server lists for the artist
MaxReleases == 3
\* releases per page of the model; the collectors ask for pages of 100
PageSize == 2

\* symbols and word characters of those calls
SolutionSymbols == {<<"C">>, <<"O">>, <<"C", "o">>, <<"N">>}

SolutionChars == {"c", "o", "C"}

\* characters that direct inputs are built from
InputChars == {"c", "o", "n", "e", "a", "C", "1"}

\* lines that input files are built from
FileLines == {<<" ">>, <<"N", "e">>, <<"e", "n", " ">>, <<"a", "r", "e">>,
              <<"c", "o", "1">>, <<"E", "N">>}

\* ------------------------------------------------------------ characters
UpperChars ==
  <<"A","B","C","D","E","F","G","H","I","J","K","L","M",
    "N","O","P","Q","R","S","T","U","V","W","X","Y","Z">>

LowerChars ==
  <<"a","b","c","d","e","f","g","h","i","j","k","l","m",
    "n","o","p","q","r","s","t","u","v","w","x","y","z">>

\* str.lower() of one character
lower_char(c) ==
  IF \E i \in 1..26 : UpperChars[i] = c
    THEN LowerChars[CHOOSE i \in 1..26 : UpperChars[i] = c]
    ELSE c

\* upper_char leaving the character as it is
upper_char_identity(c) == c

\* str.upper() of one character
upper_char(c) ==
  IF \E i \in 1..26 : LowerChars[i] = c
    THEN UpperChars[CHOOSE i \in 1..26 : LowerChars[i] = c]
    ELSE c

\* str.lower() of a string
lower(s) == [i \in 1..Len(s) |-> lower_char(s[i])]

\* str.isspace() of one character
is_space(c) == c = " "

RECURSIVE lstrip(_)
lstrip(s) ==
  IF s # <<>> /\ is_space(Head(s)) THEN lstrip(Tail(s)) ELSE s

RECURSIVE rstrip(_)
rstrip(s) ==
  IF s # <<>> /\ is_space(s[Len(s)])
    THEN rstrip(SubSeq(s, 1, Len(s) - 1))
    ELSE s

\* str.strip()
strip(s) == rstrip(lstrip(s))

\* ---------------------------------------------------------------- __init__
\* self.elements as built by PeriodicSpeller.__init__
ELEMENTS == {
    <<"H">>, <<"H","e">>, <<"L","i">>, <<"B","e">>, <<"B">>, <<"C">>,
    <<"N">>, <<"O">>, <<"F">>, <<"N","e">>, <<"N","a">>, <<"M","g">>,
    <<"A","l">>, <<"S","i">>, <<"P">>, <<"S">>, <<"C","l">>, <<"A","r">>,
    <<"K">>, <<"C","a">>, <<"S","c">>, <<"T","i">>, <<"V">>, <<"C","r">>,
    <<"M","n">>, <<"F","e">>, <<"C","o">>, <<"N","i">>, <<"C","u">>,
    <<"Z","n">>, <<"G","a">>, <<"G","e">>, <<"A","s">>, <<"S","e">>,
    <<"B","r">>, <<"K","r">>, <<"R","b">>, <<"S","r">>, <<"Y">>, <<"Z","r">>,
    <<"N","b">>, <<"M","o">>, <<"T","c">>, <<"R","u">>, <<"R","h">>,
    <<"P","d">>, <<"A","g">>, <<"C","d">>, <<"I","n">>, <<"S","n">>,
    <<"S","b">>, <<"T","e">>, <<"I">>, <<"X","e">>, <<"C","s">>, <<"B","a">>,
    <<"L","a">>, <<"C","e">>, <<"P","r">>, <<"N","d">>, <<"P","m">>,
    <<"S","m">>, <<"E","u">>, <<"G","d">>, <<"T","b">>, <<"D","y">>,
    <<"H","o">>, <<"E","r">>, <<"T","m">>, <<"Y","b">>, <<"L","u">>,
    <<"H","f">>, <<"T","a">>, <<"W">>, <<"R","e">>, <<"O","s">>, <<"I","r">>,
    <<"P","t">>, <<"A","u">>, <<"H","g">>, <<"T","l">>, <<"P","b">>,
    <<"B","i">>, <<"P","o">>, <<"A","t">>, <<"R","n">>, <<"F","r">>,
    <<"R","a">>, <<"A","c">>, <<"T","h">>, <<"P","a">>, <<"U">>, <<"N","p">>,
    <<"P","u">>, <<"A","m">>, <<"C","m">>, <<"B","k">>, <<"C","f">>,
    <<"E","s">>, <<"F","m">>, <<"M","d">>, <<"N","o">>, <<"L","r">>,
    <<"R","f">>, <<"D","b">>, <<"S","g">>, <<"B","h">>, <<"H","s">>,
    <<"M","t">>, <<"D","s">>, <<"R","g">>, <<"C","n">>, <<"N","h">>,
    <<"F","l">>, <<"M","c">>, <<"L","v">>, <<"T","s">>, <<"O","g">>
  }

\* elements_lower built without elem.lower()
ElementsLower_cased(els) == els

\* self.elements_lower as built by PeriodicSpeller.__init__
ElementsLower(els) == {lower(elem) : elem \in els}

VARIABLES
  elements,                \* self.elements
  elements_lower,          \* self.elements_lower
  pc,                      \* position of the running program
  caller,                  \* who called spell_word: "direct" or "process_file"
  word,                    \* argument of the running spell_word call
  exact_solutions,         \* spell_word: result of find_all_spellings
  lword,                   \* find_closest_match: word after word.lower()
  best_solutions,          \* find_closest_match: best_solutions
  min_missing,             \* find_closest_match: min_missing
  stack,                   \* find_closest_match: pending try_partial_match calls
  result,                  \* value returned by the last spell_word call
  lines,                   \* process_file: lines of the input file
  words,                   \* process_file: words
  idx,                     \* process_file: index of the next word of the loop
  results,                 \* process_file: results
  missing_letters_summary, \* process_file: missing_letters_summary
  given_solution,          \* find_missing_letters called on its own: solution
  missing_returned,        \* find_missing_letters called on its own: its value
  server,                  \* the releases the MusicBrainz server lists
  response,                \* outcome of the last self.api.make_request
  offset,                  \* collect_tracks, collect_albums: offset
  releases,                \* collect_tracks, collect_albums: releases
  next_release,            \* index of the next release of "for release in"
  total_releases,          \* prolific-1.py, albums-1.py: total_releases
  unique_songs,            \* self.unique_songs
  tracks_by_year,          \* collect_tracks: tracks_by_year
  albums,                  \* self.albums
  albums_by_year           \* collect_albums: albums_by_year

vars == <<elements, elements_lower, pc, caller, word, exact_solutions, lword,
          best_solutions, min_missing, stack, result, lines, words, idx,
          results, missing_letters_summary, given_solution,
          missing_returned, server, response, offset, releases, next_release,
          total_releases, unique_songs, tracks_by_year, albums,
          albums_by_year>>

speller == <<elements, elements_lower>>
search == <<lword, best_solutions, min_missing, stack>>
file == <<lines, words, idx, results, missing_letters_summary>>
direct == <<given_solution, missing_returned>>
paging == <<server, response, offset, releases, next_release, total_releases>>
collected == <<unique_songs, tracks_by_year, albums, albums_by_year>>
collector == <<paging, collected>>

\* the caller before any call is made
None == "None"

\* value of a name that is not bound yet
Unbound == <<>>

\* float('inf'), the initial min_missing
INF == -1

\* a < b, where b may be float('inf')
lt(a, b) == b = INF \/ a < b

\* a <= b, where b may be float('inf')
le(a, b) == b = INF \/ a <= b

\* next(e for e in self.elements if e.lower() == prefix): the candidates
original_cases(prefix) == {e \in elements : lower(e) = prefix}

\* next(e for e in self.elements if e.lower() == prefix)
original_case(prefix) == CHOOSE e \in original_cases(prefix) : TRUE

\* ---------------------------------------------------- find_missing_letters
\* list_remove dropping the first item of the list, whatever x is
list_remove_pop(l, x) == IF l = <<>> THEN <<>> ELSE Tail(l)

\* list.remove(x): drops the first occurrence of x
RECURSIVE list_remove(_, _)
list_remove(l, x) ==
  IF l = <<>> THEN <<>>
  ELSE IF Head(l) = x THEN Tail(l)
  ELSE <<Head(l)>> \o list_remove(Tail(l), x)

\* x in l
in_list(x, l) == \E i \in 1..Len(l) : l[i] = x

\* covered_letters built without element.lower()
RECURSIVE covered_letters_cased(_)
covered_letters_cased(solution) ==
  IF solution = <<>> THEN <<>>
  ELSE Head(solution) \o covered_letters_cased(Tail(solution))

\* covered_letters: the solution's elements, lowercased and concatenated
RECURSIVE covered_letters(_)
covered_letters(solution) ==
  IF solution = <<>> THEN <<>>
  ELSE lower(Head(solution)) \o covered_letters(Tail(solution))

\* the loop "for letter in covered_letters" left at the first letter that is
\* not in word_remaining
RECURSIVE remove_matched_break(_, _)
remove_matched_break(word_remaining, covered) ==
  IF covered = <<>> THEN word_remaining
  ELSE IF in_list(Head(covered), word_remaining)
    THEN remove_matched_break(list_remove(word_remaining, Head(covered)),
                              Tail(covered))
    ELSE word_remaining

\* the loop "for letter in covered_letters" over word_remaining
RECURSIVE remove_matched(_, _)
remove_matched(word_remaining, covered) ==
  IF covered = <<>> THEN word_remaining
  ELSE IF in_list(Head(covered), word_remaining)
    THEN remove_matched(list_remove(word_remaining, Head(covered)), Tail(covered))
    ELSE remove_matched(word_remaining, Tail(covered))

\* find_missing_letters: the letters of the word that the solution leaves
find_missing_letters(w, solution) ==
  LET word_remaining == remove_matched(lower(w), covered_letters(solution))
  IN  [i \in 1..Len(word_remaining) |-> upper_char(word_remaining[i])]

\* ------------------------------------------------------ find_all_spellings
\* remaining[length:]
drop(s, length) == SubSeq(s, length + 1, Len(s))

RECURSIVE backtrack(_, _, _)
\* backtrack_length recursing on remaining[1:] whatever the chunk length
backtrack_length_short_step(remaining, current_path, all_paths, length) ==
  IF Len(remaining) >= length /\ SubSeq(remaining, 1, length) \in elements_lower
    THEN backtrack(drop(remaining, 1),
                   Append(current_path, original_case(SubSeq(remaining, 1, length))),
                   all_paths)
    ELSE all_paths

\* one chunk length of the loop "for length in [1, 2]" of backtrack
backtrack_length(remaining, current_path, all_paths, length) ==
  IF Len(remaining) >= length /\ SubSeq(remaining, 1, length) \in elements_lower
    THEN backtrack(drop(remaining, length),
                   Append(current_path, original_case(SubSeq(remaining, 1, length))),
                   all_paths)
    ELSE all_paths

\* backtrack leaving the loop after the first chunk length that found a path
backtrack_first_only(remaining, current_path, all_paths) ==
  IF remaining = <<>>
    THEN Append(all_paths, current_path)
    ELSE IF backtrack_length(remaining, current_path, all_paths, 1) # all_paths
      THEN backtrack_length(remaining, current_path, all_paths, 1)
      ELSE backtrack_length(remaining, current_path, all_paths, 2)

\* backtrack recording no path when current_path is empty
backtrack_skip_empty(remaining, current_path, all_paths) ==
  IF remaining = <<>>
    THEN IF current_path = <<>> THEN all_paths
         ELSE Append(all_paths, current_path)
    ELSE backtrack_length(remaining, current_path,
                          backtrack_length(remaining, current_path, all_paths, 1),
                          2)

\* backtrack trying the 2-letter chunk before the 1-letter chunk
backtrack_two_first(remaining, current_path, all_paths) ==
  IF remaining = <<>>
    THEN Append(all_paths, current_path)
    ELSE backtrack_length(remaining, current_path,
                          backtrack_length(remaining, current_path, all_paths, 2),
                          1)

\* backtrack: the value of all_paths when the call returns
backtrack(remaining, current_path, all_paths) ==
  IF remaining = <<>>
    THEN Append(all_paths, current_path)
    ELSE backtrack_length(remaining, current_path,
                          backtrack_length(remaining, current_path, all_paths, 1),
                          2)

find_all_spellings(w) == backtrack(lower(w), <<>>, <<>>)

\* ------------------------------------------------------ find_closest_match
\* a pending call try_partial_match(pos, current_path, letters_used)
call(pos, current_path, letters_used, depth) ==
  [pos |-> pos, current_path |-> current_path, letters_used |-> letters_used,
   depth |-> depth]

\* record_solution keeping the earlier results when a better one arrives
record_solution_keep(best, mm, w, current_path, missing_letters) ==
  IF le(missing_letters, mm)
    THEN [best_solutions |->
            Append(best, <<current_path, missing_letters,
                           find_missing_letters(w, current_path)>>),
          min_missing |-> IF lt(missing_letters, mm) THEN missing_letters ELSE mm]
    ELSE [best_solutions |-> best, min_missing |-> mm]

\* record_solution accepting only strictly better results
record_solution_strict(best, mm, w, current_path, missing_letters) ==
  IF lt(missing_letters, mm)
    THEN [best_solutions |->
            <<<<current_path, missing_letters,
                find_missing_letters(w, current_path)>>>>,
          min_missing |-> missing_letters]
    ELSE [best_solutions |-> best, min_missing |-> mm]

\* try_partial_match at pos >= len(word): the new best_solutions, min_missing
record_solution(best, mm, w, current_path, missing_letters) ==
  IF le(missing_letters, mm)
    THEN [best_solutions |->
            Append(IF lt(missing_letters, mm) THEN <<>> ELSE best,
                   <<current_path, missing_letters,
                     find_missing_letters(w, current_path)>>),
          min_missing |-> IF lt(missing_letters, mm) THEN missing_letters ELSE mm]
    ELSE [best_solutions |-> best, min_missing |-> mm]

\* match_call recursing on pos + 1 whatever the chunk length
match_call_short_step(w, c, length) ==
  IF c.pos + length <= Len(w)
     /\ SubSeq(w, c.pos + 1, c.pos + length) \in elements_lower
    THEN <<call(c.pos + 1,
                Append(c.current_path,
                       original_case(SubSeq(w, c.pos + 1, c.pos + length))),
                c.letters_used + length, c.depth + 1)>>
    ELSE <<>>

\* match_call counting one used letter whatever the chunk length
match_call_count_one(w, c, length) ==
  IF c.pos + length <= Len(w)
     /\ SubSeq(w, c.pos + 1, c.pos + length) \in elements_lower
    THEN <<call(c.pos + length,
                Append(c.current_path,
                       original_case(SubSeq(w, c.pos + 1, c.pos + length))),
                c.letters_used + 1, c.depth + 1)>>
    ELSE <<>>

\* one chunk length of the loop "for length in [1, 2]" of try_partial_match:
\* the recursive call it makes, if any
match_call(w, c, length) ==
  IF c.pos + length <= Len(w)
     /\ SubSeq(w, c.pos + 1, c.pos + length) \in elements_lower
    THEN <<call(c.pos + length,
                Append(c.current_path,
                       original_case(SubSeq(w, c.pos + 1, c.pos + length))),
                c.letters_used + length, c.depth + 1)>>
    ELSE <<>>

\* skip_call recursing on the same position
skip_call_stall(c) == <<call(c.pos, c.current_path, c.letters_used, c.depth + 1)>>

\* the skip call try_partial_match(pos + 1, current_path, letters_used)
skip_call(c) == <<call(c.pos + 1, c.current_path, c.letters_used, c.depth + 1)>>

\* recursive_calls making the skip call before the matching calls
recursive_calls_skip_first(w, c) ==
  skip_call(c) \o match_call(w, c, 1) \o match_call(w, c, 2)

\* recursive_calls trying the 2-letter chunk before the 1-letter chunk
recursive_calls_two_first(w, c) ==
  match_call(w, c, 2) \o match_call(w, c, 1) \o skip_call(c)

\* recursive_calls with the skip call inside the loop over the chunk lengths
recursive_calls_skip_in_loop(w, c) ==
  match_call(w, c, 1) \o skip_call(c) \o match_call(w, c, 2) \o skip_call(c)

\* recursive_calls without the call that skips the current letter
recursive_calls_no_skip(w, c) == match_call(w, c, 1) \o match_call(w, c, 2)

\* try_partial_match at pos < len(word): its recursive calls, in call order
recursive_calls(w, c) == match_call(w, c, 1) \o match_call(w, c, 2) \o skip_call(c)

\* --------------------------------------------------------------- spell_word
\* spell_result reporting the closest matches unconditionally
spell_result_always_closest(w, exact, closest) ==
  [word |-> w,
   can_be_spelled |-> Len(exact) > 0,
   exact_solutions |-> exact,
   closest_matches |-> closest]

\* the dictionary returned by spell_word
spell_result(w, exact, closest) ==
  [word |-> w,
   can_be_spelled |-> Len(exact) > 0,
   exact_solutions |-> exact,
   closest_matches |-> IF exact = <<>> THEN closest ELSE <<>>]

\* ------------------------------------------------------------- process_file
\* words = [line.strip() for line in f if line.strip()]
RECURSIVE read_words(_)
read_words(ls) ==
  IF ls = <<>> THEN <<>>
  ELSE IF strip(Head(ls)) # <<>>
    THEN <<strip(Head(ls))>> \o read_words(Tail(ls))
    ELSE read_words(Tail(ls))

\* ', '.join(letters)
RECURSIVE join(_)
join(letters) ==
  IF letters = <<>> THEN <<>>
  ELSE IF Len(letters) = 1 THEN <<letters[1]>>
  ELSE <<letters[1], ",", " ">> \o join(Tail(letters))

\* f"{word}: {', '.join(missing_letters)}"
summary_line(w, missing_letters) == w \o <<":", " ">> \o join(missing_letters)

\* add_summary taking the missing letters of the last closest match
add_summary_last_match(summary, res) ==
  IF ~res.can_be_spelled /\ res.closest_matches # <<>>
     /\ res.closest_matches[Len(res.closest_matches)][3] # <<>>
    THEN Append(summary,
                summary_line(res.word,
                             res.closest_matches[Len(res.closest_matches)][3]))
    ELSE summary

\* missing_letters_summary after the loop body has handled one result
add_summary(summary, res) ==
  IF ~res.can_be_spelled /\ res.closest_matches # <<>>
     /\ res.closest_matches[1][3] # <<>>
    THEN Append(summary, summary_line(res.word, res.closest_matches[1][3]))
    ELSE summary

\* ------------------------------------------------------------------- inputs
Seqs(S, n) == UNION {[1..k -> S] : k \in 0..n}

\* the words of the specification's concrete scenarios, and a word of
\* characters that occur in no symbol
ScenarioWords == {<<"X", "y", "z">>, <<"C", "o", "b", "a", "l", "t">>,
                  <<"H", "e">>, <<"q", "!", " ">>}

Words == Seqs(InputChars, MaxLen) \cup ScenarioWords

Files == Seqs(FileLines, MaxLines)

\* the arguments of find_missing_letters when it is called on its own: words
\* with doubled letters and solutions with symbols whose letters the word
\* lacks
Solutions == Seqs(SolutionSymbols, MaxSolution)

SolutionWords == Seqs(SolutionChars, MaxLen)

\* ------------------------------------------------------------------ actions
\* no speller call has been made
SpellerIdle ==
  /\ elements = ELEMENTS
  /\ elements_lower = ElementsLower(ELEMENTS)
  /\ caller = None
  /\ word = Unbound
  /\ exact_solutions = Unbound
  /\ lword = Unbound
  /\ best_solutions = <<>>
  /\ min_missing = INF
  /\ stack = <<>>
  /\ result = Unbound
  /\ lines = Unbound
  /\ words = <<>>
  /\ idx = 0
  /\ results = <<>>
  /\ missing_letters_summary = <<>>
  /\ given_solution = Unbound
  /\ missing_returned = Unbound

\* no collector has been constructed
CollectorIdle ==
  /\ server = <<>>
  /\ response = None
  /\ offset = 0
  /\ releases = <<>>
  /\ next_release = 0
  /\ total_releases = 0
  /\ unique_songs = <<>>
  /\ tracks_by_year = <<>>
  /\ albums = <<>>
  /\ albums_by_year = <<>>

Init ==
  /\ pc = "idle"
  /\ SpellerIdle
  /\ CollectorIdle

\* a caller invokes speller.spell_word(w)
DirectCall ==
  /\ pc = "idle"
  /\ \E w \in Words : word' = w
  /\ caller' = "direct"
  /\ pc' = "spell_word"
  /\ UNCHANGED <<speller, direct, collector, exact_solutions, search, result,
                 file>>

\* a caller invokes speller.find_missing_letters(w, sol)
FindMissingLetters ==
  /\ pc = "idle"
  /\ \E w \in SolutionWords, sol \in Solutions :
       /\ word' = w
       /\ given_solution' = sol
       /\ missing_returned' = find_missing_letters(w, sol)
  /\ caller' = "direct"
  /\ pc' = "missing_returned"
  /\ UNCHANGED <<speller, collector, exact_solutions, search, result, file>>

\* spell_word: exact_solutions = self.find_all_spellings(word)
SpellWordExact ==
  /\ pc = "spell_word"
  /\ exact_solutions' = find_all_spellings(word)
  /\ pc' = "exact_done"
  /\ UNCHANGED <<speller, direct, collector, caller, word, search, result,
                 file>>

\* FindClosestMatchStart with best_solutions and min_missing kept on the
\* speller from one call to the next
FindClosestMatchStart_stale ==
  /\ pc = "exact_done"
  /\ lword' = lower(word)
  /\ best_solutions' = best_solutions
  /\ min_missing' = min_missing
  /\ stack' = <<call(0, <<>>, 0, 1)>>
  /\ pc' = "try_partial_match"
  /\ UNCHANGED <<speller, direct, collector, caller, word, exact_solutions,
                 result, file>>

\* FindClosestMatchStart searching the word as given, not lowercased
FindClosestMatchStart_cased ==
  /\ pc = "exact_done"
  /\ lword' = word
  /\ best_solutions' = <<>>
  /\ min_missing' = INF
  /\ stack' = <<call(0, <<>>, 0, 1)>>
  /\ pc' = "try_partial_match"
  /\ UNCHANGED <<speller, direct, collector, caller, word, exact_solutions,
                 result, file>>

\* spell_word: closest_matches = self.find_closest_match(word), up to the
\* first call try_partial_match(0, [], 0)
FindClosestMatchStart ==
  /\ pc = "exact_done"
  /\ lword' = lower(word)
  /\ best_solutions' = <<>>
  /\ min_missing' = INF
  /\ stack' = <<call(0, <<>>, 0, 1)>>
  /\ pc' = "try_partial_match"
  /\ UNCHANGED <<speller, direct, collector, caller, word, exact_solutions,
                 result, file>>

\* try_partial_match reaches the end of the word
TryPartialMatchComplete ==
  /\ pc = "try_partial_match"
  /\ stack # <<>>
  /\ Head(stack).pos >= Len(lword)
  /\ LET c == Head(stack)
         r == record_solution(best_solutions, min_missing, lword,
                              c.current_path, Len(lword) - c.letters_used)
     IN  /\ best_solutions' = r.best_solutions
         /\ min_missing' = r.min_missing
  /\ stack' = Tail(stack)
  /\ UNCHANGED <<speller, direct, collector, pc, caller, word,
                 exact_solutions, lword, result, file>>

\* try_partial_match inside the word: match 1 letter, match 2 letters, skip
TryPartialMatchBranch ==
  /\ pc = "try_partial_match"
  /\ stack # <<>>
  /\ Head(stack).pos < Len(lword)
  /\ stack' = recursive_calls(lword, Head(stack)) \o Tail(stack)
  /\ UNCHANGED <<speller, direct, collector, pc, caller, word,
                 exact_solutions, lword, best_solutions, min_missing, result,
                 file>>

\* find_closest_match returns best_solutions and spell_word returns its dict
SpellWordReturn ==
  /\ pc = "try_partial_match"
  /\ stack = <<>>
  /\ result' = spell_result(word, exact_solutions, best_solutions)
  /\ pc' = "returned"
  /\ UNCHANGED <<speller, direct, collector, caller, word, exact_solutions,
                 search, file>>

\* process_file starts: the input file is read into words
ProcessFileRead ==
  /\ pc = "idle"
  /\ \E f \in Files :
       /\ lines' = f
       /\ words' = read_words(f)
  /\ idx' = 1
  /\ results' = <<>>
  /\ missing_letters_summary' = <<>>
  /\ caller' = "process_file"
  /\ pc' = "for_word"
  /\ UNCHANGED <<speller, direct, collector, word, exact_solutions, search,
                 result>>

\* process_file: the loop takes the next word and calls spell_word
ProcessFileCall ==
  /\ pc = "for_word"
  /\ idx <= Len(words)
  /\ word' = words[idx]
  /\ pc' = "spell_word"
  /\ UNCHANGED <<speller, direct, collector, caller, exact_solutions, search,
                 result, file>>

\* process_file: the loop body after spell_word has returned
ProcessFileRecord ==
  /\ pc = "returned"
  /\ caller = "process_file"
  /\ results' = Append(results, result)
  /\ missing_letters_summary' = add_summary(missing_letters_summary, result)
  /\ idx' = idx + 1
  /\ pc' = "for_word"
  /\ UNCHANGED <<speller, direct, collector, caller, word, exact_solutions,
                 search, result, lines, words>>

\* process_file: the loop is over
ProcessFileDone ==
  /\ pc = "for_word"
  /\ idx > Len(words)
  /\ pc' = "finished"
  /\ UNCHANGED <<speller, direct, collector, caller, word, exact_solutions,
                 search, result, file>>

Next ==
  \/ DirectCall
  \/ FindMissingLetters
  \/ SpellWordExact
  \/ FindClosestMatchStart
  \/ TryPartialMatchComplete
  \/ TryPartialMatchBranch
  \/ SpellWordReturn
  \/ ProcessFileRead
  \/ ProcessFileCall
  \/ ProcessFileRecord
  \/ ProcessFileDone

Spec == Init /\ [][Next]_vars

TypeOK ==
  /\ elements = ELEMENTS
  /\ pc \in {"idle", "spell_word", "exact_done", "try_partial_match",
             "returned", "for_word", "finished", "missing_returned"}

\* ============================================================= src/artists
\* A JSON object is a function from its keys; a Python dict that is iterated
\* is a sequence of <<key, value>> pairs in insertion order.

\* d.get(k, default) on a JSON object
get(d, k, default) == IF k \in DOMAIN d THEN d[k] ELSE default

\* k in d
dict_has(d, k) == \E i \in 1..Len(d) : d[i][1] = k

\* d[k]
dict_get(d, k) == d[CHOOSE i \in 1..Len(d) : d[i][1] = k][2]

\* d[k] = v: a known key keeps its place, a new key goes last
dict_set(d, k, v) ==
  IF dict_has(d, k)
    THEN [i \in 1..Len(d) |-> IF d[i][1] = k THEN <<k, v>> ELSE d[i]]
    ELSE Append(d, <<k, v>>)

\* d.values()
dict_values(d) == [i \in 1..Len(d) |-> d[i][2]]

\* d[k].append(v) on a defaultdict(list)
dict_append(d, k, v) ==
  IF dict_has(d, k)
    THEN dict_set(d, k, Append(dict_get(d, k), v))
    ELSE Append(d, <<k, <<v>>>>)

\* the characters of dates, in code point order
DateChars == <<"-", "0", "1", "2", "3", "4", "5", "6", "7", "8", "9">>

ord(c) == CHOOSE k \in 1..Len(DateChars) : DateChars[k] = c

\* s < t on strings
RECURSIVE str_lt(_, _)
str_lt(s, t) ==
  IF t = <<>> THEN FALSE
  ELSE IF s = <<>> THEN TRUE
  ELSE IF Head(s) = Head(t) THEN str_lt(Tail(s), Tail(t))
  ELSE ord(Head(s)) < ord(Head(t))

\* s >= t on strings
str_ge(s, t) == ~str_lt(s, t)

\* s[:n]
take(s, n) == SubSeq(s, 1, IF Len(s) < n THEN Len(s) ELSE n)

Digits == <<"0", "1", "2", "3", "4", "5", "6", "7", "8", "9">>

is_digit(c) == \E k \in 1..Len(Digits) : Digits[k] = c

\* int(s) raises ValueError: s is empty or holds a character that is no digit
int_fails(s) == s = <<>> \/ \E k \in 1..Len(s) : ~is_digit(s[k])

\* int(s) for a string of digits
RECURSIVE int(_)
int(s) ==
  IF s = <<>> THEN 0
  ELSE 10 * int(SubSeq(s, 1, Len(s) - 1))
       + (CHOOSE k \in 1..Len(Digits) : Digits[k] = s[Len(s)]) - 1

\* str(n) for n >= 0
RECURSIVE str(_)
str(n) ==
  IF n < 10 THEN <<Digits[n + 1]>>
  ELSE str(n \div 10) \o <<Digits[(n % 10) + 1]>>

\* the value None of length_seconds
NoLength == -1

\* recording.get("length", 0) // 1000 if recording.get("length") else None
length_seconds(recording) ==
  IF get(recording, "length", 0) # 0
    THEN get(recording, "length", 0) \div 1000
    ELSE NoLength

\* the tracks of a release in the order of "for medium in ..: for track in .."
RECURSIVE tracks_of_media(_)
tracks_of_media(media) ==
  IF media = <<>> THEN <<>>
  ELSE get(Head(media), "tracks", <<>>) \o tracks_of_media(Tail(media))

\* recording.get("title", track.get("title", "")).strip()
song_title_of(track) ==
  strip(get(get(track, "recording", <<>>), "title", get(track, "title", <<>>)))

\* [t.lower() for t in release_group.get("secondary-types", [])]
secondary_types_of(release) ==
  LET types == get(get(release, "release_group", <<>>), "secondary_types", <<>>)
  IN  [k \in 1..Len(types) |-> lower(types[k])]

\* release_group.get("primary-type", "").lower()
primary_type_of(release) ==
  lower(get(get(release, "release_group", <<>>), "primary_type", <<>>))

\* the words the collectors compare release types with
album == <<"a", "l", "b", "u", "m">>
single == <<"s", "i", "n", "g", "l", "e">>
ep == <<"e", "p">>
live == <<"l", "i", "v", "e">>
compilation == <<"c", "o", "m", "p", "i", "l", "a", "t", "i", "o", "n">>
soundtrack == <<"s", "o", "u", "n", "d", "t", "r", "a", "c", "k">>
remix == <<"r", "e", "m", "i", "x">>

\* ----------------------------------------------------- the server's releases
\* song titles; the second differs from the first by a trailing space
Hi == <<"H", "i">>
HiSpace == <<"H", "i", " ">>
Yo == <<"Y", "o">>

\* release dates
Year1961 == <<"1", "9", "6", "1">>
Year1962 == <<"1", "9", "6", "2">>
Year1963 == <<"1", "9", "6", "3">>
March1963 == <<"1", "9", "6", "3", "-", "0", "3">>
Year1971 == <<"1", "9", "7", "1">>
NoYear == <<"?">>

Recording(title, length) == [title |-> title, length |-> length]

Track(position, title, recording) ==
  [position |-> position, title |-> title, recording |-> recording]

Medium(position, tracks) == [position |-> position, tracks |-> tracks]

ReleaseGroup(primary, secondary) ==
  [primary_type |-> primary, secondary_types |-> secondary]

\* an album of March 1963; its second track has no recording
AlbumMarch ==
  [id |-> "a", title |-> "A", date |-> March1963,
   release_group |-> ReleaseGroup(<<"A", "l", "b", "u", "m">>, <<>>),
   media |-> <<Medium(1, <<Track(1, Hi, Recording(Hi, 2000)),
                           Track(2, Yo, <<>>)>>)>>]

\* a single of 1962 whose recording has no length
SingleEarly ==
  [id |-> "b", title |-> "B", date |-> Year1962,
   release_group |-> ReleaseGroup(<<"S", "i", "n", "g", "l", "e">>, <<>>),
   media |-> <<Medium(1, <<Track(1, HiSpace, Recording(HiSpace, 0))>>)>>]

\* an EP of the same date as the album, on two media
EpMarch ==
  [id |-> "c", title |-> "C", date |-> March1963,
   release_group |-> ReleaseGroup(<<"E", "P">>, <<>>),
   media |-> <<Medium(2, <<Track(1, Hi, Recording(Hi, 3000))>>),
               Medium(1, <<Track(1, Yo, Recording(Yo, 1000))>>)>>]

\* a live album, earlier than every other release
LiveAlbum ==
  [id |-> "d", title |-> "D", date |-> Year1961,
   release_group |-> ReleaseGroup(<<"A", "l", "b", "u", "m">>,
                                  <<<<"L", "i", "v", "e">>>>),
   media |-> <<Medium(1, <<Track(1, Hi, Recording(Hi, 2000))>>)>>]

\* an album dated by its year only, which precedes the dates of that year;
\* its media and tracks are listed out of order
AlbumYear ==
  [id |-> "e", title |-> "E", date |-> Year1963,
   release_group |-> ReleaseGroup(<<"A", "l", "b", "u", "m">>, <<>>),
   media |-> <<Medium(2, <<Track(1, Yo, Recording(Yo, 1000))>>),
               Medium(1, <<Track(2, Hi, Recording(Hi, 2000)),
                           Track(1, Yo, Recording(Yo, 1000))>>)>>]

\* an album outside the year range
AlbumLate ==
  [id |-> "f", title |-> "F", date |-> Year1971,
   release_group |-> ReleaseGroup(<<"A", "l", "b", "u", "m">>, <<>>),
   media |-> <<Medium(1, <<Track(1, Hi, Recording(Hi, 2000))>>)>>]

\* a single whose date does not start with a year
SingleNoYear ==
  [id |-> "g", title |-> "G", date |-> NoYear,
   release_group |-> ReleaseGroup(<<"S", "i", "n", "g", "l", "e">>, <<>>),
   media |-> <<Medium(1, <<Track(1, Yo, Recording(Yo, 1000))>>)>>]

\* an album without date and without media
AlbumBare ==
  [id |-> "h", title |-> "H",
   release_group |-> ReleaseGroup(<<"A", "l", "b", "u", "m">>, <<>>)]

Releases == {AlbumMarch, SingleEarly, EpMarch, LiveAlbum, AlbumYear, AlbumLate,
             SingleNoYear, AlbumBare}

\* what the server can list for the artist
Servers == Seqs(Releases, MaxReleases)

\* limit, scaled down to the page size of the model
limit == PageSize

\* the page of releases that a request with the given offset is answered with
page(listed, off) ==
  SubSeq(listed, off + 1,
         IF off + limit < Len(listed) THEN off + limit ELSE Len(listed))

\* ------------------------------------------------------------- prolific.py
\* BeatlesMusicCollector.is_valid_release
is_valid_release(release) ==
  LET release_date == get(release, "date", <<>>)
  IN  /\ release_date # <<>>
      /\ ~int_fails(take(release_date, 4))
      /\ 1961 <= int(take(release_date, 4))
      /\ int(take(release_date, 4)) <= 1970
      /\ ~\E k \in 1..Len(secondary_types_of(release)) :
            secondary_types_of(release)[k] \in {live, compilation, soundtrack}
      /\ primary_type_of(release) \in {album, single, ep}

\* the track_data of prolific.py
track_data(release, track) ==
  [song_title |-> song_title_of(track),
   release_date |-> get(release, "date", <<>>),
   release_title |-> get(release, "title", ""),
   length_seconds |-> length_seconds(get(track, "recording", <<>>))]

\* keeps_existing with "release_date > existing_date"
keeps_existing_later_only(release_date, existing_date) ==
  str_lt(existing_date, release_date)

\* the test "release_date >= existing_date" that keeps the stored entry
keeps_existing(release_date, existing_date) ==
  str_ge(release_date, existing_date)

\* the loops over the media and tracks of one valid release: self.unique_songs
\* after them
RECURSIVE collect_release(_, _, _)
collect_release(songs, release, tracks) ==
  IF tracks = <<>> THEN songs
  ELSE LET track == Head(tracks)
           song_title == song_title_of(track)
       IN  IF DOMAIN get(track, "recording", <<>>) = {}
             THEN collect_release(songs, release, Tail(tracks))
           ELSE IF /\ dict_has(songs, song_title)
                   /\ keeps_existing(get(release, "date", <<>>),
                                     dict_get(songs, song_title).release_date)
             THEN collect_release(songs, release, Tail(tracks))
           ELSE collect_release(dict_set(songs, song_title,
                                         track_data(release, track)),
                                release, Tail(tracks))

\* the loop "for song_data in self.unique_songs.values()"
RECURSIVE organize_by_year(_, _)
organize_by_year(by_year, songs) ==
  IF songs = <<>> THEN by_year
  ELSE organize_by_year(dict_append(by_year, take(Head(songs).release_date, 4),
                                    Head(songs)),
                        Tail(songs))

\* collect_tracks is called on a new collector
TracksInit ==
  /\ pc = "request"
  /\ SpellerIdle
  /\ server \in Servers
  /\ response = None
  /\ offset = 0
  /\ releases = <<>>
  /\ next_release = 0
  /\ total_releases = 0
  /\ unique_songs = <<>>
  /\ tracks_by_year = <<>>
  /\ albums = <<>>
  /\ albums_by_year = <<>>

\* make_request returns a page: an empty page ends the while loop
TracksRequest ==
  /\ pc = "request"
  /\ response' = "ok"
  /\ releases' = page(server, offset)
  /\ next_release' = 1
  /\ pc' = IF page(server, offset) = <<>> THEN "organize" ELSE "for_release"
  /\ UNCHANGED <<speller, caller, word, exact_solutions, search, result, file,
                 direct, server, offset, total_releases, collected>>

\* make_request raises RequestException: the while loop is left
TracksRequestFails ==
  /\ pc = "request"
  /\ response' = "failed"
  /\ pc' = "organize"
  /\ UNCHANGED <<speller, caller, word, exact_solutions, search, result, file,
                 direct, server, offset, releases, next_release,
                 total_releases, collected>>

\* one round of "for release in releases"
TracksRelease ==
  /\ pc = "for_release"
  /\ next_release <= Len(releases)
  /\ unique_songs' =
       IF is_valid_release(releases[next_release])
         THEN collect_release(unique_songs, releases[next_release],
                              tracks_of_media(get(releases[next_release],
                                                  "media", <<>>)))
         ELSE unique_songs
  /\ next_release' = next_release + 1
  /\ UNCHANGED <<speller, pc, caller, word, exact_solutions, search, result,
                 file, direct, server, response, offset, releases,
                 total_releases, tracks_by_year, albums, albums_by_year>>

\* the page is done: a short page ends the while loop, a full page is
\* followed by the request for the next one
TracksPageDone ==
  /\ pc = "for_release"
  /\ next_release > Len(releases)
  /\ IF Len(releases) < limit
       THEN pc' = "organize" /\ offset' = offset
       ELSE pc' = "request" /\ offset' = offset + limit
  /\ UNCHANGED <<speller, caller, word, exact_solutions, search, result, file,
                 direct, server, response, releases, next_release,
                 total_releases, collected>>

\* the tracks are organized by year and returned
TracksReturn ==
  /\ pc = "organize"
  /\ tracks_by_year' = organize_by_year(<<>>, dict_values(unique_songs))
  /\ pc' = "collected"
  /\ UNCHANGED <<speller, caller, word, exact_solutions, search, result, file,
                 direct, paging, unique_songs, albums, albums_by_year>>

TracksNext ==
  \/ TracksRequest
  \/ TracksRequestFails
  \/ TracksRelease
  \/ TracksPageDone
  \/ TracksReturn

TracksSpec == TracksInit /\ [][TracksNext]_vars

\* ----------------------------------------------------------- prolific-1.py
\* year_range as collect_artist_catalog is called by the script
year_range == <<1961, 1970>>

\* MusicCatalogCollector.parse_year: (success, year)
parse_year(date_str) ==
  IF date_str = <<>> \/ int_fails(take(date_str, 4))
    THEN [success |-> FALSE, year |-> 0]
    ELSE [success |-> TRUE, year |-> int(take(date_str, 4))]

\* MusicCatalogCollector.is_valid_release: (is_valid, year)
catalog_is_valid_release(release) ==
  LET parsed == parse_year(get(release, "date", <<>>))
  IN  IF ~parsed.success THEN [is_valid |-> FALSE, year |-> 0]
      ELSE IF ~(year_range[1] <= parsed.year /\ parsed.year <= year_range[2])
        THEN [is_valid |-> FALSE, year |-> parsed.year]
      ELSE IF \E k \in 1..Len(secondary_types_of(release)) :
                secondary_types_of(release)[k]
                  \in {live, compilation, soundtrack}
        THEN [is_valid |-> FALSE, year |-> parsed.year]
      ELSE IF primary_type_of(release) \notin {album, single, ep}
        THEN [is_valid |-> FALSE, year |-> parsed.year]
      ELSE [is_valid |-> TRUE, year |-> parsed.year]

\* is_album
is_album(release) == primary_type_of(release) = album

\* the track_data of prolific-1.py
catalog_track_data(release, track) ==
  [song_title |-> song_title_of(track),
   release_date |-> get(release, "date", <<>>),
   release_title |-> get(release, "title", ""),
   release_type |-> IF is_album(release) THEN "Album Track" ELSE "Single",
   album_name |-> IF is_album(release) THEN get(release, "title", "") ELSE "",
   length_seconds |-> length_seconds(get(track, "recording", <<>>))]

\* the condition under which a track replaces the stored track of its title
replaces_existing(release, existing_track) ==
  LET existing_is_album == existing_track.release_type = "Album Track"
  IN  \/ is_album(release) /\ ~existing_is_album
      \/ /\ is_album(release) = existing_is_album
         /\ str_lt(get(release, "date", <<>>), existing_track.release_date)

\* the loops over the media and tracks of one valid release:
\* self.unique_songs and tracks_by_year after them
RECURSIVE catalog_collect_release(_, _, _, _, _)
catalog_collect_release(songs, by_year, release, year, tracks) ==
  IF tracks = <<>> THEN [unique_songs |-> songs, tracks_by_year |-> by_year]
  ELSE LET track == Head(tracks)
           song_title == song_title_of(track)
       IN  IF DOMAIN get(track, "recording", <<>>) = {}
             THEN catalog_collect_release(songs, by_year, release, year,
                                          Tail(tracks))
           ELSE IF /\ dict_has(songs, song_title)
                   /\ ~replaces_existing(release, dict_get(songs, song_title))
             THEN catalog_collect_release(songs, by_year, release, year,
                                          Tail(tracks))
           ELSE catalog_collect_release(
                  dict_set(songs, song_title, catalog_track_data(release, track)),
                  dict_append(by_year, str(year),
                              catalog_track_data(release, track)),
                  release, year, Tail(tracks))

\* sum(len(tracks) for tracks in tracks_by_year.values())
RECURSIVE total_tracks(_)
total_tracks(by_year) ==
  IF by_year = <<>> THEN 0
  ELSE Len(Head(by_year)[2]) + total_tracks(Tail(by_year))

\* collect_tracks is called on a new collector
CatalogInit ==
  /\ pc = "request"
  /\ SpellerIdle
  /\ server \in Servers
  /\ response = None
  /\ offset = 0
  /\ releases = <<>>
  /\ next_release = 0
  /\ total_releases = 0
  /\ unique_songs = <<>>
  /\ tracks_by_year = <<>>
  /\ albums = <<>>
  /\ albums_by_year = <<>>

\* make_request returns a page: an empty page ends the while loop
CatalogRequest ==
  /\ pc = "request"
  /\ response' = "ok"
  /\ releases' = page(server, offset)
  /\ next_release' = 1
  /\ IF page(server, offset) = <<>>
       THEN pc' = "collected" /\ total_releases' = total_releases
       ELSE /\ pc' = "for_release"
            /\ total_releases' = total_releases + Len(page(server, offset))
  /\ UNCHANGED <<speller, caller, word, exact_solutions, search, result, file,
                 direct, server, offset, collected>>

\* make_request raises RequestException: the same request is made again
CatalogRequestFails ==
  /\ pc = "request"
  /\ response' = "failed"
  /\ UNCHANGED <<speller, pc, caller, word, exact_solutions, search, result,
                 file, direct, server, offset, releases, next_release,
                 total_releases, collected>>

\* one round of "for release in releases"
CatalogRelease ==
  /\ pc = "for_release"
  /\ next_release <= Len(releases)
  /\ LET release == releases[next_release]
         valid == catalog_is_valid_release(release)
         after == catalog_collect_release(
                    unique_songs, tracks_by_year, release, valid.year,
                    tracks_of_media(get(release, "media", <<>>)))
     IN  IF valid.is_valid
           THEN /\ unique_songs' = after.unique_songs
                /\ tracks_by_year' = after.tracks_by_year
           ELSE UNCHANGED <<unique_songs, tracks_by_year>>
  /\ next_release' = next_release + 1
  /\ UNCHANGED <<speller, pc, caller, word, exact_solutions, search, result,
                 file, direct, server, response, offset, releases,
                 total_releases, albums, albums_by_year>>

\* the page is done: a short page ends the while loop, a full page is
\* followed by the request for the next one
CatalogPageDone ==
  /\ pc = "for_release"
  /\ next_release > Len(releases)
  /\ IF Len(releases) < limit
       THEN pc' = "collected" /\ offset' = offset
       ELSE pc' = "request" /\ offset' = offset + limit
  /\ UNCHANGED <<speller, caller, word, exact_solutions, search, result, file,
                 direct, server, response, releases, next_release,
                 total_releases, collected>>

CatalogNext ==
  \/ CatalogRequest
  \/ CatalogRequestFails
  \/ CatalogRelease
  \/ CatalogPageDone

CatalogSpec == CatalogInit /\ [][CatalogNext]_vars

\* ------------------------------------------------------------- albums-1.py
\* year_range as collect_artist_albums is called by the script
albums_year_range == <<1962, 1970>>

\* any(medium.get("tracks") for medium in media)
any_tracks(media) ==
  \E k \in 1..Len(media) : get(media[k], "tracks", <<>>) # <<>>

\* AlbumCatalogCollector.is_valid_album: (is_valid, year)
is_valid_album(release) ==
  LET parsed == parse_year(get(release, "date", <<>>))
  IN  IF ~parsed.success THEN [is_valid |-> FALSE, year |-> 0]
      ELSE IF ~(/\ albums_year_range[1] <= parsed.year
                /\ parsed.year <= albums_year_range[2])
        THEN [is_valid |-> FALSE, year |-> parsed.year]
      ELSE IF \E k \in 1..Len(secondary_types_of(release)) :
                secondary_types_of(release)[k]
                  \in {live, compilation, soundtrack, remix}
        THEN [is_valid |-> FALSE, year |-> parsed.year]
      ELSE IF primary_type_of(release) # album
        THEN [is_valid |-> FALSE, year |-> parsed.year]
      ELSE IF ~any_tracks(get(release, "media", <<>>))
        THEN [is_valid |-> FALSE, year |-> parsed.year]
      ELSE [is_valid |-> TRUE, year |-> parsed.year]

\* the track_data of albums-1.py
album_track_data(medium, track) ==
  [disc_number |-> get(medium, "position", 1),
   track_number |-> get(track, "position", 0),
   title |-> song_title_of(track),
   length_seconds |-> length_seconds(get(track, "recording", <<>>))]

\* the loop over the tracks of one medium: tracks after it
RECURSIVE medium_tracks(_, _)
medium_tracks(medium, tracks) ==
  IF tracks = <<>> THEN <<>>
  ELSE IF DOMAIN get(Head(tracks), "recording", <<>>) = {}
    THEN medium_tracks(medium, Tail(tracks))
    ELSE <<album_track_data(medium, Head(tracks))>>
           \o medium_tracks(medium, Tail(tracks))

\* the loop over the media of a release: tracks after it
RECURSIVE album_tracks(_)
album_tracks(media) ==
  IF media = <<>> THEN <<>>
  ELSE medium_tracks(Head(media), get(Head(media), "tracks", <<>>))
         \o album_tracks(Tail(media))

\* the order of the key (disc_number, track_number)
key_lt(a, b) ==
  \/ a.disc_number < b.disc_number
  \/ a.disc_number = b.disc_number /\ a.track_number < b.track_number

\* x put into a sorted list behind the items that are not greater
RECURSIVE insert_sorted(_, _)
insert_sorted(l, x) ==
  IF l = <<>> THEN <<x>>
  ELSE IF key_lt(x, Head(l)) THEN <<x>> \o l
  ELSE <<Head(l)>> \o insert_sorted(Tail(l), x)

\* sorted(tracks, key=lambda x: (x["disc_number"], x["track_number"]))
RECURSIVE sorted(_)
sorted(tracks) ==
  IF tracks = <<>> THEN <<>>
  ELSE insert_sorted(sorted(SubSeq(tracks, 1, Len(tracks) - 1)),
                     tracks[Len(tracks)])

\* album_data
album_data(release, year) ==
  [album_id |-> release.id,
   title |-> get(release, "title", ""),
   release_date |-> get(release, "date", <<>>),
   year |-> year,
   tracks |-> sorted(album_tracks(get(release, "media", <<>>)))]

\* collect_albums is called on a new collector
AlbumsInit ==
  /\ pc = "request"
  /\ SpellerIdle
  /\ server \in Servers
  /\ response = None
  /\ offset = 0
  /\ releases = <<>>
  /\ next_release = 0
  /\ total_releases = 0
  /\ unique_songs = <<>>
  /\ tracks_by_year = <<>>
  /\ albums = <<>>
  /\ albums_by_year = <<>>

\* make_request returns a page: an empty page ends the while loop
AlbumsRequest ==
  /\ pc = "request"
  /\ response' = "ok"
  /\ releases' = page(server, offset)
  /\ next_release' = 1
  /\ IF page(server, offset) = <<>>
       THEN pc' = "collected" /\ total_releases' = total_releases
       ELSE /\ pc' = "for_release"
            /\ total_releases' = total_releases + Len(page(server, offset))
  /\ UNCHANGED <<speller, caller, word, exact_solutions, search, result, file,
                 direct, server, offset, collected>>

\* AlbumsRequestFails leaving the while loop, as prolific.py does
AlbumsRequestFails_break ==
  /\ pc = "request"
  /\ response' = "failed"
  /\ pc' = "collected"
  /\ UNCHANGED <<speller, caller, word, exact_solutions, search, result, file,
                 direct, server, offset, releases, next_release,
                 total_releases, collected>>

\* make_request raises RequestException: the same request is made again
AlbumsRequestFails ==
  /\ pc = "request"
  /\ response' = "failed"
  /\ UNCHANGED <<speller, pc, caller, word, exact_solutions, search, result,
                 file, direct, server, offset, releases, next_release,
                 total_releases, collected>>

\* one round of "for release in releases"
AlbumsRelease ==
  /\ pc = "for_release"
  /\ next_release <= Len(releases)
  /\ LET release == releases[next_release]
         valid == is_valid_album(release)
     IN  IF valid.is_valid /\ ~dict_has(albums, release.id)
           THEN /\ albums' = dict_set(albums, release.id,
                                      album_data(release, valid.year))
                /\ albums_by_year' = dict_append(albums_by_year,
                                                 str(valid.year),
                                                 album_data(release, valid.year))
           ELSE UNCHANGED <<albums, albums_by_year>>
  /\ next_release' = next_release + 1
  /\ UNCHANGED <<speller, pc, caller, word, exact_solutions, search, result,
                 file, direct, server, response, offset, releases,
                 total_releases, unique_songs, tracks_by_year>>

\* the page is done: a short page ends the while loop, a full page is
\* followed by the request for the next one
AlbumsPageDone ==
  /\ pc = "for_release"
  /\ next_release > Len(releases)
  /\ IF Len(releases) < limit
       THEN pc' = "collected" /\ offset' = offset
       ELSE pc' = "request" /\ offset' = offset + limit
  /\ UNCHANGED <<speller, caller, word, exact_solutions, search, result, file,
                 direct, server, response, releases, next_release,
                 total_releases, collected>>

AlbumsNext ==
  \/ AlbumsRequest
  \/ AlbumsRequestFails
  \/ AlbumsRelease
  \/ AlbumsPageDone

AlbumsSpec == AlbumsInit /\ [][AlbumsNext]_vars

\* ------------------------------------------------- vocabulary of the claims
\* the symbols of a tiling written one after the other
RECURSIVE Concat(_)
Concat(tiling) ==
  IF tiling = <<>> THEN <<>> ELSE Head(tiling) \o Concat(Tail(tiling))

\* two strings are equal when case is ignored: same length, same letters in
\* the same order
SameIgnoringCase(s, t) ==
  /\ Len(s) = Len(t)
  /\ \A k \in 1..Len(s) : lower_char(s[k]) = lower_char(t[k])

\* find_all_spellings(word) has returned and exact_solutions holds its value
ExactReturned == pc \in {"exact_done", "try_partial_match", "returned"}

\* find_closest_match(word) has returned and best_solutions holds its value
ClosestReturned == pc = "returned"

\* the tilings of a list of closest matches
Tilings(matches) == {matches[i][1] : i \in 1..Len(matches)}

\* C1: every tiling returned by find_all_spellings(word) concatenates, case
\* ignored, to the whole word.
C1_RoundTrip ==
  ExactReturned =>
    \A i \in 1..Len(exact_solutions) :
       SameIgnoringCase(Concat(exact_solutions[i]), word)

\* find_all_spellings has returned several tilings, one with a 2-letter
\* symbol, of a word that is not all lowercase
C1_Witness ==
  /\ pc = "exact_done"
  /\ Len(exact_solutions) >= 2
  /\ word # lower(word)
  /\ \E i \in 1..Len(exact_solutions) :
       \E k \in 1..Len(exact_solutions[i]) : Len(exact_solutions[i][k]) = 2

\* ------------------------------------------------------- partial tilings
\* the length of the longest alphabet symbol
LongestSymbol ==
  CHOOSE m \in {Len(e) : e \in ELEMENTS} : \A e \in ELEMENTS : Len(e) <= m

\* the alphabet symbols with their case ignored
SymbolsIgnoringCase == {lower(e) : e \in ELEMENTS}

\* A partial tiling of w, as a placement: f[a] > 0 says that a symbol of
\* f[a] letters is matched on the chunk of w that starts at position a; the
\* chunks lie inside w, do not overlap, and each is a symbol (case ignored).
\* The letters outside the chunks are skipped.
Placements(w) ==
  {f \in [1..Len(w) -> 0..LongestSymbol] :
     \A a \in 1..Len(w) :
        f[a] > 0 =>
          /\ a + f[a] - 1 <= Len(w)
          /\ lower(SubSeq(w, a, a + f[a] - 1)) \in SymbolsIgnoringCase
          /\ \A b \in (a + 1)..(a + f[a] - 1) : f[b] = 0}

\* the chunks of a placement from position a on, left to right
RECURSIVE ChunksFrom(_, _, _)
ChunksFrom(w, f, a) ==
  IF a > Len(w) THEN <<>>
  ELSE IF f[a] > 0
    THEN <<SubSeq(w, a, a + f[a] - 1)>> \o ChunksFrom(w, f, a + f[a])
    ELSE ChunksFrom(w, f, a + 1)

\* the number of letters of w that a placement leaves uncovered
RECURSIVE Uncovered(_, _, _)
Uncovered(w, f, a) ==
  IF a > Len(w) THEN 0
  ELSE IF f[a] > 0 THEN Uncovered(w, f, a + f[a])
  ELSE 1 + Uncovered(w, f, a + 1)

\* the fewest letters that any partial tiling of w leaves uncovered
MinUncovered(w) ==
  LET counts == {Uncovered(w, f, 1) : f \in Placements(w)}
  IN  CHOOSE m \in counts : \A k \in counts : m <= k

\* tiling is the sequence of alphabet symbols matched on the chunks
TilingOfChunks(tiling, chunks) ==
  /\ Len(tiling) = Len(chunks)
  /\ \A k \in 1..Len(tiling) :
       tiling[k] \in ELEMENTS /\ SameIgnoringCase(tiling[k], chunks[k])

\* the sum of the lengths of a tiling's symbols
RECURSIVE SumLen(_)
SumLen(tiling) ==
  IF tiling = <<>> THEN 0 ELSE Len(Head(tiling)) + SumLen(Tail(tiling))

\* C2: every sequence S of alphabet symbols whose concatenation is the word
\* (a placement that covers the whole word) is in the list returned by
\* find_all_spellings, and spell_word then reports can_be_spelled.
C2_AllTilings ==
  /\ pc = "exact_done" =>
       \A f \in Placements(word) :
          Uncovered(word, f, 1) = 0 =>
            \E i \in 1..Len(exact_solutions) :
               TilingOfChunks(exact_solutions[i], ChunksFrom(word, f, 1))
  /\ pc = "returned" =>
       ((\E f \in Placements(word) : Uncovered(word, f, 1) = 0)
          => result.can_be_spelled)

\* spell_word has returned for a word that is the concatenation, in
\* canonical case, of one symbol sequence and, case ignored, of another
C2_Witness ==
  /\ pc = "returned"
  /\ result.can_be_spelled
  /\ \E i \in 1..Len(exact_solutions) : Concat(exact_solutions[i]) = word
  /\ \E f, g \in Placements(word) :
       f # g /\ Uncovered(word, f, 1) = 0 /\ Uncovered(word, g, 1) = 0

\* C3: all results of find_closest_match(word) carry the same missing count,
\* the fewest letters that any partial tiling of the word leaves uncovered.
C3_MinimalMissing ==
  ClosestReturned =>
    LET fewest == MinUncovered(word)
    IN  \A i \in 1..Len(best_solutions) : best_solutions[i][2] = fewest

\* find_closest_match has returned for a word whose best partial tilings
\* cover two letters or more and leave at least one uncovered
C3_Witness ==
  /\ ClosestReturned
  /\ best_solutions # <<>>
  /\ best_solutions[1][2] >= 1
  /\ best_solutions[1][2] < Len(word) - 1

\* C4: every partial tiling of the word that leaves the fewest letters
\* uncovered is among the results of find_closest_match(word).
C4_AllTies ==
  ClosestReturned =>
    LET fewest == MinUncovered(word)
    IN  \A f \in Placements(word) :
           Uncovered(word, f, 1) = fewest =>
             \E i \in 1..Len(best_solutions) :
                TilingOfChunks(best_solutions[i][1], ChunksFrom(word, f, 1))

\* find_closest_match has returned two different optimal tilings of a word
\* that cannot be spelled exactly
C4_Witness ==
  /\ ClosestReturned
  /\ exact_solutions = <<>>
  /\ Len(best_solutions) >= 2
  /\ best_solutions[1][1] # best_solutions[2][1]

\* C5: in every result of find_closest_match(word), missingCount is the
\* length of the word minus the summed lengths of the tiling's symbols.
C5_MissingCount ==
  ClosestReturned =>
    \A i \in 1..Len(best_solutions) :
       best_solutions[i][2] = Len(word) - SumLen(best_solutions[i][1])

\* a result holds a 2-letter symbol and a positive missing count
C5_Witness ==
  /\ ClosestReturned
  /\ \E i \in 1..Len(best_solutions) :
       /\ best_solutions[i][2] > 0
       /\ \E k \in 1..Len(best_solutions[i][1]) : Len(best_solutions[i][1][k]) = 2

\* C6: in every result of find_closest_match(word), the list of missing
\* letters is as long as missingCount.
C6_MissingLettersLength ==
  ClosestReturned =>
    \A i \in 1..Len(best_solutions) :
       Len(best_solutions[i][3]) = best_solutions[i][2]

\* a result has a non-empty tiling and a non-empty list of missing letters
C6_Witness ==
  /\ ClosestReturned
  /\ \E i \in 1..Len(best_solutions) :
       best_solutions[i][1] # <<>> /\ best_solutions[i][3] # <<>>

\* C7: spell_word reports can_be_spelled exactly when exact_solutions is not
\* empty; closest_matches is empty then, and is the value returned by
\* find_closest_match otherwise.
C7_ResultShape ==
  pc = "returned" =>
    /\ result.word = word
    /\ result.exact_solutions = exact_solutions
    /\ result.can_be_spelled = (result.exact_solutions # <<>>)
    /\ result.exact_solutions # <<>> => result.closest_matches = <<>>
    /\ result.exact_solutions = <<>> => result.closest_matches = best_solutions

\* spell_word has returned for an exactly spellable word: find_closest_match
\* returned results and none is reported
C7_Witness ==
  /\ pc = "returned"
  /\ result.can_be_spelled
  /\ best_solutions # <<>>
  /\ result.closest_matches = <<>>

\* C8: find_closest_match is started only when find_all_spellings returned
\* no tiling.
C8_ClosestOnlyWithoutExact ==
  pc = "try_partial_match" => exact_solutions = <<>>

\* the results that process_file got from one speller agree on equal words
SameResultForSameWord ==
  \A i, j \in 1..Len(results) :
     results[i].word = results[j].word => results[i] = results[j]

\* C9: two spell_word calls on one speller with the same word return the
\* same result, whatever calls lie between them, and no step changes
\* elements or elements_lower.
C9_Idempotent ==
  /\ []SameResultForSameWord
  /\ [][elements' = elements /\ elements_lower' = elements_lower]_vars

\* process_file called spell_word on a word that cannot be spelled exactly,
\* then on another word, then on the first word again
C9_Witness ==
  /\ Len(results) >= 3
  /\ results[1].word = results[3].word
  /\ results[2].word # results[1].word
  /\ ~results[1].can_be_spelled
  /\ results[1].closest_matches # <<>>

\* C10: spell_word("") reports can_be_spelled with exactly one exact
\* solution, the empty tiling, and no closest match.
C10_EmptyWord ==
  (pc = "returned" /\ word = <<>>) =>
    /\ result.can_be_spelled = TRUE
    /\ result.exact_solutions = << <<>> >>
    /\ result.closest_matches = <<>>

\* spell_word("") has returned
C10_Witness ==
  /\ pc = "returned"
  /\ word = <<>>
  /\ result.word = <<>>

\* C11: spell_word("Xyz") cannot be spelled and its closest match is the
\* empty tiling with missingCount 3 and missing letters X, Y, Z.
C11_XyzNothingMatches ==
  (pc = "returned" /\ word = <<"X", "y", "z">>) =>
    /\ result.can_be_spelled = FALSE
    /\ \A i \in 1..Len(result.closest_matches) :
         result.closest_matches[i] = << <<>>, 3, <<"X", "Y", "Z">> >>

\* C11 as the code has it: spell_word("Xyz") cannot be spelled and has one
\* closest match, the tiling Y with missingCount 2 and missing letters X, Z.
C11_XyzMatchesY ==
  (pc = "returned" /\ word = <<"X", "y", "z">>) =>
    /\ result.can_be_spelled = FALSE
    /\ result.closest_matches = << << << <<"Y">> >>, 2, <<"X", "Z">> >> >>

\* spell_word("Xyz") has returned
C11_Witness ==
  /\ pc = "returned"
  /\ word = <<"X", "y", "z">>
  /\ result.closest_matches # <<>>

\* C12: spell_word("Cobalt") cannot be spelled; its closest matches, C+O+B+Al
\* first, all have missingCount 1 and the missing letter T.
C12_Cobalt ==
  (pc = "returned" /\ word = <<"C", "o", "b", "a", "l", "t">>) =>
    /\ result.can_be_spelled = FALSE
    /\ result.closest_matches # <<>>
    /\ result.closest_matches[1][1] = << <<"C">>, <<"O">>, <<"B">>, <<"A", "l">> >>
    /\ \A i \in 1..Len(result.closest_matches) :
         /\ result.closest_matches[i][2] = 1
         /\ result.closest_matches[i][3] = <<"T">>

\* spell_word("Cobalt") has returned with more than one closest match
C12_Witness ==
  /\ pc = "returned"
  /\ word = <<"C", "o", "b", "a", "l", "t">>
  /\ Len(result.closest_matches) >= 2

\* the letters that occur in some alphabet symbol, lowercased
SymbolLetters == UNION {{lower(e)[k] : k \in 1..Len(e)} : e \in ELEMENTS}

\* the items of a list
Items(l) == {l[k] : k \in 1..Len(l)}

\* the chunks of w, those that the searches look up among them
LookedUp(w) ==
  {SubSeq(w, a, b) : a \in 1..Len(w), b \in 1..Len(w)} \ {<<>>}

\* C13: spell_word is total: whatever characters the word holds, no lookup
\* of a canonical symbol fails, no pending call points outside the word, and
\* the call returns a result; and a character that is part of no symbol
\* makes the word not exactly spellable and is, uppercased, among the
\* missing letters of every closest match.
C13_Total ==
  /\ pc = "exact_done" =>
       \A chunk \in LookedUp(lower(word)) :
          chunk \in elements_lower => original_cases(chunk) # {}
  /\ pc = "try_partial_match" =>
       \A k \in 1..Len(stack) : stack[k].pos \in 0..Len(lword)
  /\ pc = "returned" => result.word = word
  /\ pc = "returned" =>
       \A k \in 1..Len(word) :
          lower_char(word[k]) \notin SymbolLetters =>
            /\ ~result.can_be_spelled
            /\ result.closest_matches # <<>>
            /\ \A i \in 1..Len(result.closest_matches) :
                 upper_char(word[k]) \in Items(result.closest_matches[i][3])

\* spell_word has returned for a word that holds a character of no symbol
\* next to letters that are matched
C13_Witness ==
  /\ pc = "returned"
  /\ \E k \in 1..Len(word) : lower_char(word[k]) \notin SymbolLetters
  /\ result.closest_matches # <<>>
  /\ result.closest_matches[1][1] # <<>>

\* every symbol of the tiling is an alphabet symbol in its canonical case
Canonical(tiling) == \A k \in 1..Len(tiling) : tiling[k] \in ELEMENTS

\* C14: words that differ only in letter case get the same can_be_spelled,
\* exact_solutions and closest_matches, and every symbol of every returned
\* tiling is an alphabet symbol in its canonical case.
C14_CaseInsensitive ==
  /\ \A i, j \in 1..Len(results) :
        lower(results[i].word) = lower(results[j].word) =>
          /\ results[i].can_be_spelled = results[j].can_be_spelled
          /\ results[i].exact_solutions = results[j].exact_solutions
          /\ results[i].closest_matches = results[j].closest_matches
  /\ pc = "returned" =>
       /\ \A i \in 1..Len(result.exact_solutions) :
             Canonical(result.exact_solutions[i])
       /\ \A i \in 1..Len(result.closest_matches) :
             Canonical(result.closest_matches[i][1])

\* process_file got the results of two words that differ in letter case
\* only and whose closest matches hold a symbol
C14_Witness ==
  \E i, j \in 1..Len(results) :
     /\ results[i].word # results[j].word
     /\ lower(results[i].word) = lower(results[j].word)
     /\ results[i].closest_matches # <<>>
     /\ results[i].closest_matches[1][1] # <<>>

\* the text "<word>: <L1>, <L2>, ..." for a non-empty list of letters
LineOf(w, letters) ==
  w \o <<":", " ">> \o
  [k \in 1..(3 * Len(letters) - 2) |->
     IF k % 3 = 1 THEN letters[(k + 2) \div 3]
     ELSE IF k % 3 = 2 THEN "," ELSE " "]

\* the result has a first closest match with missing letters
HasMissingLetters(res) ==
  res.closest_matches # <<>> /\ res.closest_matches[1][3] # <<>>

\* the lines owed to a list of results, in the order of the results
RECURSIVE LinesOf(_)
LinesOf(rs) ==
  IF rs = <<>> THEN <<>>
  ELSE (IF HasMissingLetters(Head(rs))
          THEN <<LineOf(Head(rs).word, Head(rs).closest_matches[1][3])>>
          ELSE <<>>) \o LinesOf(Tail(rs))

\* C15: process_file's summary holds, in input order, exactly one line
\* "<word>: <L1>, <L2>, ..." for each word whose first closest match has
\* missing letters, built from that first match, and no line for a word that
\* can be spelled exactly.
C15_Summary ==
  (caller = "process_file" /\ pc \in {"for_word", "finished"}) =>
    /\ Len(results) = idx - 1
    /\ \A i \in 1..Len(results) :
          /\ results[i].word = words[i]
          /\ results[i].can_be_spelled => ~HasMissingLetters(results[i])
    /\ missing_letters_summary = LinesOf(results)

\* process_file has finished a file with an exactly spellable word, a word
\* with one missing letter and a word whose two closest matches miss
\* different letters
C15_Witness ==
  /\ pc = "finished"
  /\ Len(missing_letters_summary) >= 2
  /\ \E i \in 1..Len(results) : results[i].can_be_spelled
  /\ \E i \in 1..Len(results) :
       /\ Len(results[i].closest_matches) >= 2
       /\ results[i].closest_matches[1][3] # results[i].closest_matches[2][3]

\* every pending call lies inside the word, at a depth of at most
\* len(word) + 1, and only a call at pos = len(word) completes a path
PositionsBounded ==
  pc = "try_partial_match" =>
    \A k \in 1..Len(stack) :
       /\ stack[k].pos <= Len(lword)
       /\ stack[k].depth <= stack[k].pos + 1
       /\ stack[k].depth <= Len(lword) + 1

\* an upper bound of the number of calls that the pending calls stand for:
\* a call at r letters from the end makes at most two calls at r - 1 and
\* one at r - 2
RECURSIVE Pending(_)
Pending(st) ==
  IF st = <<>> THEN 0
  ELSE 3 ^ (Len(lword) - Head(st).pos) + Pending(Tail(st))

\* a step of the search: a call at pos = len(word) completes and makes no
\* call; a call inside the word makes at least one call, each one level
\* deeper, at a strictly greater position, never beyond len(word); and the
\* bound on the calls still to come goes down
SearchProgress ==
  (pc = "try_partial_match" /\ pc' = "try_partial_match"
   /\ stack # <<>> /\ stack' # stack) =>
    LET c == Head(stack)
        n == Len(stack') - Len(stack) + 1
    IN  /\ n >= 0
        /\ SubSeq(stack', n + 1, Len(stack')) = Tail(stack)
        /\ c.pos = Len(lword) => n = 0
        /\ c.pos < Len(lword) => n >= 1
        /\ \A k \in 1..n :
              /\ stack'[k].pos > c.pos
              /\ stack'[k].pos <= Len(lword)
              /\ stack'[k].depth = c.depth + 1
        /\ Pending(stack') < Pending(stack)

\* C16: the closest-match search terminates: every recursive call is made
\* at a strictly greater position, never beyond len(word), so the depth is
\* at most len(word) + 1, every branch ends in a call at pos = len(word),
\* and the number of calls still to come is bounded and goes down with
\* every call.
C16_Terminates ==
  /\ []PositionsBounded
  /\ [][SearchProgress]_vars

\* the search is at its deepest: a pending call at depth len(word) + 1, at
\* the end of a word of three letters or more
C16_Witness ==
  /\ pc = "try_partial_match"
  /\ Len(lword) >= 3
  /\ stack # <<>>
  /\ Head(stack).depth = Len(lword) + 1
  /\ Head(stack).pos = Len(lword)

\* the first index at which two tilings hold different symbols, 0 if none
FirstDifference(s, t) ==
  LET both == 1..(IF Len(s) <= Len(t) THEN Len(s) ELSE Len(t))
      diff == {k \in both : s[k] # t[k]}
  IN  IF diff = {} THEN 0 ELSE CHOOSE k \in diff : \A m \in diff : k <= m

\* C17: of any two tilings returned by find_all_spellings, the earlier one
\* has a 1-letter symbol and the later one a 2-letter symbol at the first
\* place where they differ.
C17_ExactOrder ==
  pc = "exact_done" =>
    \A i, j \in 1..Len(exact_solutions) :
       i < j =>
         LET k == FirstDifference(exact_solutions[i], exact_solutions[j])
         IN  /\ k > 0
             /\ Len(exact_solutions[i][k]) = 1
             /\ Len(exact_solutions[j][k]) = 2

\* find_all_spellings has returned three tilings or more
C17_Witness ==
  /\ pc = "exact_done"
  /\ Len(exact_solutions) >= 3

\* the placements of w that leave the fewest letters uncovered
OptimalPlacements(w) ==
  LET fewest == MinUncovered(w)
  IN  {f \in Placements(w) : Uncovered(w, f, 1) = fewest}

\* the optimal placements of w whose symbol sequence is tiling: the search
\* paths that yield it
PathsOf(w, tiling) ==
  {f \in OptimalPlacements(w) : TilingOfChunks(tiling, ChunksFrom(w, f, 1))}

\* the first position at which two different placements differ: the first
\* position where the two search paths make a different choice
FirstFork(f, g) ==
  CHOOSE a \in DOMAIN f : f[a] # g[a] /\ \A b \in 1..(a - 1) : f[b] = g[b]

\* the place of a choice in the order 1-letter match, 2-letter match, skip
Preference(choice) == IF choice = 0 THEN 3 ELSE choice

\* C18: find_closest_match returns its results in depth-first order: of any
\* two results, the earlier one made, at the first position where their
\* search paths differ, the choice that comes first in the order 1-letter
\* match, 2-letter match, skip.
C18_ClosestOrder ==
  ClosestReturned =>
    \A i, j \in 1..Len(best_solutions) :
       /\ PathsOf(word, best_solutions[i][1]) # {}
       /\ i < j =>
         \A f \in PathsOf(word, best_solutions[i][1]) :
            \A g \in PathsOf(word, best_solutions[j][1]) :
               /\ f # g
               /\ Preference(f[FirstFork(f, g)]) < Preference(g[FirstFork(f, g)])

\* find_closest_match has returned a result that matched two letters where
\* the next result skipped a letter, in a word that cannot be spelled exactly
C18_Witness ==
  /\ ClosestReturned
  /\ exact_solutions = <<>>
  /\ Len(best_solutions) >= 2
  /\ \E f \in PathsOf(word, best_solutions[1][1]) :
       \E g \in PathsOf(word, best_solutions[2][1]) :
          f # g /\ f[FirstFork(f, g)] = 2 /\ g[FirstFork(f, g)] = 0

\* every entry of best_solutions carries min_missing
AllAtMinimum ==
  pc \in {"try_partial_match", "returned"} =>
    \A i \in 1..Len(best_solutions) : best_solutions[i][2] = min_missing

\* a step of the search: min_missing does not go up; a call inside the word
\* leaves best_solutions and min_missing alone; a completed path replaces
\* the whole list when strictly better, is appended when equal, and changes
\* nothing when strictly worse
RecordStep ==
  (pc = "try_partial_match" /\ pc' = "try_partial_match"
   /\ stack # <<>> /\ stack' # stack) =>
    LET c == Head(stack)
        missing == Len(lword) - c.letters_used
        last == best_solutions'[Len(best_solutions')]
    IN  /\ min_missing # INF =>
              min_missing' # INF /\ min_missing' <= min_missing
        /\ c.pos < Len(lword) =>
              best_solutions' = best_solutions /\ min_missing' = min_missing
        /\ (c.pos >= Len(lword) /\ (min_missing = INF \/ missing < min_missing)) =>
              /\ min_missing' = missing
              /\ Len(best_solutions') = 1
              /\ last[1] = c.current_path /\ last[2] = missing
        /\ (c.pos >= Len(lword) /\ missing = min_missing) =>
              /\ min_missing' = min_missing
              /\ Len(best_solutions') = Len(best_solutions) + 1
              /\ SubSeq(best_solutions', 1, Len(best_solutions)) = best_solutions
              /\ last[1] = c.current_path /\ last[2] = missing
        /\ (c.pos >= Len(lword) /\ min_missing # INF /\ missing > min_missing) =>
              best_solutions' = best_solutions /\ min_missing' = min_missing

\* C19: throughout a closest-match search every entry of best_solutions
\* carries min_missing, min_missing never goes up, and a completed path
\* replaces the list when strictly better, is appended when equal and is
\* dropped when strictly worse.
C19_BestSet ==
  /\ []AllAtMinimum
  /\ [][RecordStep]_vars

\* the search holds recorded results and is about to complete a path that
\* is strictly better than them
C19_Witness ==
  /\ pc = "try_partial_match"
  /\ stack # <<>>
  /\ Head(stack).pos = Len(lword)
  /\ best_solutions # <<>>
  /\ min_missing # INF
  /\ Len(lword) - Head(stack).letters_used < min_missing

\* s is a prefix of t
IsPrefix(s, t) ==
  /\ Len(s) <= Len(t)
  /\ \A k \in 1..Len(s) : s[k] = t[k]

\* C20: the lowercase concatenation of every tiling returned by
\* find_closest_match is a prefix of the lowercased word.
C20_Prefix ==
  ClosestReturned =>
    \A i \in 1..Len(best_solutions) :
       IsPrefix(lower(Concat(best_solutions[i][1])), lower(word))

\* C20 as the code has it: the lowercase concatenation of every tiling
\* returned by find_closest_match is made of disjoint chunks of the
\* lowercased word taken left to right, skipped letters left out, and is no
\* longer than the word.
C20_Chunks ==
  ClosestReturned =>
    \A i \in 1..Len(best_solutions) :
       /\ SumLen(best_solutions[i][1]) <= Len(word)
       /\ \E f \in Placements(word) :
            /\ TilingOfChunks(best_solutions[i][1], ChunksFrom(word, f, 1))
            /\ lower(Concat(best_solutions[i][1]))
                 = Concat(ChunksFrom(lower(word), f, 1))

\* find_closest_match has returned a tiling with a symbol that is matched
\* after a skipped letter, so that its concatenation is no prefix of the word
C20_Witness ==
  /\ ClosestReturned
  /\ \E i \in 1..Len(best_solutions) :
       /\ best_solutions[i][1] # <<>>
       /\ ~IsPrefix(lower(Concat(best_solutions[i][1])), lower(word))

\* ------------------------------------------------------------------- C21
\* find_missing_letters(word, solution) has returned to a direct caller
MissingReturned == pc = "missing_returned"

\* how often x occurs in l
Count(x, l) == Cardinality({i \in 1..Len(l) : l[i] = x})

\* the positions of w whose letter is left over when, for every letter, as
\* many of its first occurrences are struck out as taken has of it
LeftOver(w, taken) ==
  {i \in 1..Len(w) : Count(w[i], SubSeq(w, 1, i)) > Count(w[i], taken)}

\* the k-th smallest member of a set of positions
Nth(positions, k) ==
  CHOOSE i \in positions : Cardinality({j \in positions : j <= i}) = k

\* C21: for every word and every symbol sequence, also one whose letters do
\* not all occur in the word, find_missing_letters returns the uppercased
\* word without, for each letter, as many of its first occurrences as the
\* solution's lowercase concatenation has of that letter: the word's order is
\* kept and each letter is left max(0, in the word - in the solution) times.
C21_MissingLetters ==
  MissingReturned =>
    LET w == lower(word)
        taken == lower(Concat(given_solution))
        kept == LeftOver(w, taken)
    IN  /\ Len(missing_returned) = Cardinality(kept)
        /\ \A k \in 1..Len(missing_returned) :
             missing_returned[k] = upper_char(w[Nth(kept, k)])
        /\ \A x \in Items(w) :
             Count(upper_char(x), missing_returned)
               = IF Count(x, w) > Count(x, taken)
                   THEN Count(x, w) - Count(x, taken) ELSE 0

\* find_missing_letters was given a solution with a letter the word lacks,
\* and a word with a doubled letter of which the solution has one: the first
\* occurrence is gone and the second is reported
C21_Witness ==
  /\ MissingReturned
  /\ \E x \in Items(lower(Concat(given_solution))) :
       ~in_list(x, lower(word))
  /\ \E i, j \in 1..Len(word) :
       /\ i < j
       /\ lower_char(word[i]) = lower_char(word[j])
       /\ Count(lower_char(word[i]), lower(Concat(given_solution))) = 1
       /\ Count(lower_char(word[i]), lower(word)) = 2
       /\ missing_returned # <<>>
       /\ Len(missing_returned) < Len(word)

\* ------------------------------------------------------------------- C25
\* a result of spell_word for a word that cannot be spelled names at least
\* one closest match, and each of its matches misses a letter
NamesMissingLetters(res) ==
  ~res.can_be_spelled =>
    /\ res.closest_matches # <<>>
    /\ \A i \in 1..Len(res.closest_matches) :
         /\ res.closest_matches[i][2] >= 1
         /\ res.closest_matches[i][3] # <<>>

\* C25: find_closest_match returns at least one result for every word, so
\* whenever spell_word reports can_be_spelled = false its closest_matches
\* list is non-empty, and every entry then has missingCount >= 1 and a
\* non-empty missing-letter list; the same holds of the results process_file
\* has collected.
C25_SomeClosestMatch ==
  /\ ClosestReturned =>
       /\ best_solutions # <<>>
       /\ NamesMissingLetters(result)
  /\ \A i \in 1..Len(results) : NamesMissingLetters(results[i])

\* spell_word has returned for a word in which no chunk is a symbol: the
\* one closest match is the empty tiling, with every letter missing
C25_Witness ==
  /\ ClosestReturned
  /\ ~result.can_be_spelled
  /\ Len(result.closest_matches) = 1
  /\ result.closest_matches[1][1] = <<>>
  /\ result.closest_matches[1][2] = Len(word)
  /\ Len(word) >= 1

\* ------------------------------------------------------------------- C26
\* no item occurs twice in the list l
Distinct(l) == \A i, j \in 1..Len(l) : i < j => l[i] # l[j]

\* the tilings of the results of find_closest_match
TilingsOf(best) == [i \in 1..Len(best) |-> best[i][1]]

\* C26: no tiling occurs twice in a result list: the tilings returned by
\* find_all_spellings are pairwise distinct, and so are the tilings returned
\* by find_closest_match, each of which is the symbol sequence of exactly one
\* optimal search path; no alphabet symbol consists of a doubled letter.
C26_NoDuplicates ==
  /\ pc = "exact_done" => Distinct(exact_solutions)
  /\ ClosestReturned =>
       /\ Distinct(TilingsOf(best_solutions))
       /\ LET optimal == OptimalPlacements(word)
          IN  \A i \in 1..Len(best_solutions) :
                 Cardinality({f \in optimal :
                                TilingOfChunks(best_solutions[i][1],
                                               ChunksFrom(word, f, 1))}) = 1
  /\ pc = "idle" =>
       \A e \in elements : Len(e) = 2 => lower_char(e[1]) # lower_char(e[2])

\* find_closest_match has returned several tilings for a word in which one
\* symbol sequence can be matched at different positions
C26_Witness ==
  /\ ClosestReturned
  /\ Len(best_solutions) >= 2
  /\ \E f, g \in Placements(word) :
       /\ f # g
       /\ ChunksFrom(lower(word), f, 1) # <<>>
       /\ ChunksFrom(lower(word), f, 1) = ChunksFrom(lower(word), g, 1)

\* ------------------------------------------------------------------- C27
\* C27: the two searches agree on exactly spellable words: find_closest_match
\* returns results with missing count 0 exactly when find_all_spellings
\* returns a non-empty list, and then its tilings are the tilings of
\* find_all_spellings in the same order, each with an empty missing-letter
\* list.
C27_SearchesAgree ==
  ClosestReturned =>
    /\ (\E i \in 1..Len(best_solutions) : best_solutions[i][2] = 0)
         <=> exact_solutions # <<>>
    /\ exact_solutions # <<>> =>
         /\ TilingsOf(best_solutions) = exact_solutions
         /\ \A i \in 1..Len(best_solutions) :
              best_solutions[i][2] = 0 /\ best_solutions[i][3] = <<>>

\* both searches have returned for a word with several exact tilings
C27_Witness ==
  /\ ClosestReturned
  /\ Len(exact_solutions) >= 2
  /\ Len(best_solutions) = Len(exact_solutions)
  /\ best_solutions[2][1] = exact_solutions[2]

\* ------------------------------------------------------------------- C28
\* the positions of w that a placement skips
Skipped(w, f) ==
  {a \in 1..Len(w) : \A b \in 1..a : ~(f[b] > 0 /\ b + f[b] - 1 >= a)}

\* how often the letter x, uppercased, stands at the positions skipped
SkippedCount(x, w, f) ==
  Cardinality({a \in Skipped(w, f) : upper_char(lower_char(w[a])) = x})

\* C28: for every result of find_closest_match, the reported missing letters
\* are, as a multiset, the uppercased letters at the word positions that the
\* search path skipped; every letter of the tiling is found in the working
\* copy of the word, so none is silently ignored.
C28_MissingAreSkipped ==
  ClosestReturned =>
    \A i \in 1..Len(best_solutions) :
       LET tiling == best_solutions[i][1]
           reported == best_solutions[i][3]
           covered == lower(Concat(tiling))
       IN  /\ \A x \in Items(covered) :
                Count(x, covered) <= Count(x, lower(word))
           /\ Len(reported) = Len(word) - Len(covered)
           /\ \A f \in PathsOf(word, tiling) :
                /\ Cardinality(Skipped(word, f)) = Len(reported)
                /\ \A x \in Items(reported) :
                     Count(x, reported) = SkippedCount(x, word, f)

\* find_closest_match has returned a result whose path skipped a letter and
\* later matched the same letter: find_missing_letters struck out the
\* skipped occurrence and reports the matched one
C28_Witness ==
  /\ ClosestReturned
  /\ \E i \in 1..Len(best_solutions) :
       \E f \in PathsOf(word, best_solutions[i][1]) :
          \E a \in Skipped(word, f) :
             \E b \in (a + 1)..Len(word) :
                /\ b \notin Skipped(word, f)
                /\ lower_char(word[a]) = lower_char(word[b])
                /\ best_solutions[i][3] # <<>>

\* ------------------------------------------------------------------- C29
\* the alphabet as the lookups need it: every symbol has 1 or 2 characters,
\* elements_lower is the set of the lowercased elements, and no two elements
\* have the same lowercase form
AlphabetWellFormed ==
  /\ \A e \in elements : Len(e) \in {1, 2}
  /\ elements_lower = {lower(e) : e \in elements}
  /\ Cardinality(elements_lower) = Cardinality(elements)
  /\ \A p \in elements_lower : Cardinality(original_cases(p)) = 1

\* C29: the canonical-case lookup is well defined: after construction every
\* symbol has 1 or 2 characters, elements_lower is exactly the set of
\* lowercased elements and lowercasing is injective on the alphabet; and for
\* every chunk of 1 or 2 letters of a word that the searches find in
\* elements_lower exactly one element matches it: the lookup never fails and
\* has one possible result, whatever the iteration order of the set.
C29_LookupWellDefined ==
  /\ pc = "idle" => AlphabetWellFormed
  /\ pc = "exact_done" =>
       \A a \in 1..Len(word), length \in {1, 2} :
          LET chunk == lower(SubSeq(word, a, a + length - 1))
              cases == original_cases(chunk)
          IN  (a + length - 1 <= Len(word) /\ chunk \in elements_lower) =>
                /\ Cardinality(cases) = 1
                /\ original_case(chunk) \in cases

\* both searches have returned a tiling with a two-letter symbol that was
\* looked up from a chunk written in another case
C29_Witness ==
  /\ ClosestReturned
  /\ exact_solutions # <<>>
  /\ \E k \in 1..Len(best_solutions[1][1]) :
       LET symbol == best_solutions[1][1][k]
       IN  /\ Len(symbol) = 2
           /\ symbol \in elements
           /\ \E a \in 1..(Len(word) - 1) :
                /\ SubSeq(word, a, a + 1) # symbol
                /\ lower(SubSeq(word, a, a + 1)) = lower(symbol)
                /\ original_case(lower(SubSeq(word, a, a + 1))) = symbol

\* ------------------------------------------------------------------- C22
\* how many releases of the server the loop over the pages has processed
ProcessedCount ==
  IF pc = "for_release" THEN offset + next_release - 1
  ELSE IF pc = "request" \/ response = "failed" THEN offset
  ELSE offset + Len(releases)

\* the releases processed so far, in the order of their arrival
Processed == SubSeq(server, 1, ProcessedCount)

\* the song titles of a release: those of its tracks that have a recording
SongTitles(release) ==
  LET tracks == tracks_of_media(get(release, "media", <<>>))
  IN  {song_title_of(tracks[k]) :
         k \in {n \in 1..Len(tracks) :
                  DOMAIN get(tracks[n], "recording", <<>>) # {}}}

\* the places in a list of releases of the valid releases with the title
Holders(listed, title) ==
  {i \in 1..Len(listed) :
     is_valid_release(listed[i]) /\ title \in SongTitles(listed[i])}

\* the place of the release whose entry is to be stored for the title: the
\* earliest release date wins, and of equal dates the first to arrive
Earliest(listed, title) ==
  CHOOSE i \in Holders(listed, title) :
    \A j \in Holders(listed, title) :
       /\ ~str_lt(listed[j].date, listed[i].date)
       /\ j < i => str_lt(listed[i].date, listed[j].date)

\* self.unique_songs after the releases of a list have been processed
RECURSIVE SongsAfter(_, _)
SongsAfter(songs, listed) ==
  IF listed = <<>> THEN songs
  ELSE SongsAfter(IF is_valid_release(Head(listed))
                    THEN collect_release(songs, Head(listed),
                           tracks_of_media(get(Head(listed), "media", <<>>)))
                    ELSE songs,
                  Tail(listed))

\* the orders in which the releases of a list can arrive
Orders(listed) ==
  {[i \in 1..Len(listed) |-> listed[q[i]]] :
     q \in {f \in [1..Len(listed) -> 1..Len(listed)] :
              \A a, b \in 1..Len(listed) : a # b => f[a] # f[b]}}

\* C22: in prolific.py collect_tracks, after any sequence of processed
\* releases and pages, unique_songs maps each song title to the track data of
\* the valid release with the earliest release_date (string order) among the
\* valid releases processed so far that contain the title, and of releases
\* with equal dates to the first that arrived; when collect_tracks returns,
\* every other order of arrival would have stored the same dates, and the
\* same entries for the titles whose earliest date only one release has.
C22_EarliestKept ==
  pc \in {"request", "for_release", "organize", "collected"} =>
    /\ \A title \in UNION {SongTitles(server[i]) : i \in 1..Len(server)} :
         IF Holders(Processed, title) = {}
           THEN ~dict_has(unique_songs, title)
           ELSE /\ dict_has(unique_songs, title)
                /\ LET kept == Processed[Earliest(Processed, title)]
                       entry == dict_get(unique_songs, title)
                   IN  /\ entry.song_title = title
                       /\ entry.release_date = kept.date
                       /\ entry.release_title = kept.title
    /\ \A i \in 1..Len(unique_songs) :
         Holders(Processed, unique_songs[i][1]) # {}
    /\ pc = "collected" =>
         \A after \in {SongsAfter(<<>>, other) : other \in Orders(Processed)} :
                \A i \in 1..Len(unique_songs) :
                   LET title == unique_songs[i][1]
                       entry == unique_songs[i][2]
                       same_date == {j \in Holders(Processed, title) :
                                       Processed[j].date = entry.release_date}
                   IN  /\ dict_has(after, title)
                       /\ dict_get(after, title).release_date
                            = entry.release_date
                       /\ Cardinality(same_date) = 1 =>
                            dict_get(after, title) = entry

\* collect_tracks has returned after an album and an EP of the same date and
\* then an earlier single arrived: the title they share is stored from the
\* single, the title that only the EP has a recording of from the EP
C22_Witness ==
  /\ pc = "collected"
  /\ response = "ok"
  /\ server = <<AlbumMarch, EpMarch, SingleEarly>>
  /\ dict_get(unique_songs, Hi).release_title = "B"
  /\ dict_get(unique_songs, Yo).release_title = "C"
  /\ dict_has(tracks_by_year, Year1962)

\* ------------------------------------------------------------------- C23
\* the track entries of tracks_by_year, year after year
RECURSIVE TrackEntries(_)
TrackEntries(by_year) ==
  IF by_year = <<>> THEN <<>>
  ELSE Head(by_year)[2] \o TrackEntries(Tail(by_year))

\* C23: in prolific-1.py, tracks_by_year holds unique tracks: each song title
\* occurs at most once across all years, the entries are exactly the values
\* of unique_songs, and the logged total of unique tracks is the number of
\* distinct song titles kept.
C23_UniqueTracks ==
  pc = "collected" =>
    LET entries == TrackEntries(tracks_by_year)
    IN  /\ \A i, j \in 1..Len(entries) :
             i < j => entries[i].song_title # entries[j].song_title
        /\ Items(entries) = Items(dict_values(unique_songs))
        /\ total_tracks(tracks_by_year) = Len(unique_songs)

\* ------------------------------------------------------------------- C24
\* the state of the page loop of collect_albums: the page in hand is the page
\* at offset, total_releases counts every release of the pages fetched once,
\* and the loop is only left with a page that is empty or short
PagesInOrder ==
  /\ pc \in {"request", "for_release", "collected"}
  /\ \E n \in 0..Len(server) : offset = n * limit
  /\ pc = "request" => total_releases = offset
  /\ pc = "for_release" =>
       /\ releases = page(server, offset)
       /\ total_releases = offset + Len(releases)
  /\ response = "failed" => pc = "request"
  /\ pc = "collected" =>
       /\ response = "ok"
       /\ releases = page(server, offset)
       /\ Len(releases) < limit

\* a failed request changes neither offset nor self.albums nor albums_by_year
\* and leaves the loop at the request for the same offset
FailureRetries ==
  response' = "failed" =>
    /\ offset' = offset
    /\ albums' = albums
    /\ albums_by_year' = albums_by_year
    /\ pc' = "request"

\* offset only changes by limit, after every release of a full page has been
\* processed
OffsetAdvances ==
  offset' # offset =>
    /\ offset' = offset + limit
    /\ releases = page(server, offset)
    /\ Len(releases) = limit
    /\ pc = "for_release" /\ next_release > Len(releases)

\* C24: in albums-1.py collect_albums, a failed request leaves offset,
\* self.albums and albums_by_year unchanged and the same offset is requested
\* again, however many requests have failed before; offset advances by
\* exactly limit only after a full page was processed, so pages are processed
\* in increasing offset order, each at most once; and the loop ends only on
\* an empty page or a page shorter than limit, never on a failed request.
C24_RetrySameOffset ==
  /\ [](PagesInOrder /\ (pc = "request" => ENABLED AlbumsRequestFails))
  /\ [][FailureRetries /\ OffsetAdvances]_vars

\* the request for the second page has failed: the album of the first page
\* is kept and the request is to be made again
C24_Witness ==
  /\ pc = "request"
  /\ response = "failed"
  /\ offset = limit
  /\ albums # <<>>
  /\ total_releases = limit

====
